---- MODULE Spec2Model ----
(***************************************************************************)
(* A model of wagtailstreamforms/views/submission_list.py: the admin view  *)
(* that lists the Submissions of a Form, filters them by date and exports  *)
(* them as CSV or XLSX.                                                    *)
(*                                                                         *)
(* Text (a Python str) is a sequence of one-character strings, so that     *)
(* joining, coercion to text and tag stripping are computed rather than    *)
(* assumed.  A Python value is a record [kind, v]; a timestamp is a pair   *)
(* <<day, frac>> with frac = 0 for midnight exactly and frac = 1 for a     *)
(* later moment of that day.                                               *)
(***************************************************************************)
EXTENDS Integers, Sequences, FiniteSets, TLC

VARIABLES
    forms,                    \* Form id -> its data fields (get_data_fields)
    hooks,                    \* the registered construct_form_queryset hooks
    submissions,              \* the Submission table, in id order
    request,                  \* the GET request being served
    pc,                       \* position of the request in the view
    object,                   \* self.object (0 while unset)
    queryset,                 \* self.queryset
    queries,                  \* the database queries run so far, in order
    outcome,                  \* "none", "ok", "notfound" or "denied"
    response,                 \* what has been written to the HTTP response
    custom_field_preprocess,  \* class attribute, line 97
    custom_value_preprocess,  \* class attribute, lines 99-102
    call,                     \* arguments of a get_preprocess_function call
    returned                  \* what that call returned

vars == <<forms, hooks, submissions, request, pc, object, queryset, queries,
          outcome, response, custom_field_preprocess, custom_value_preprocess,
          call, returned>>

(***************************************************************************)
(* Bounds of the model.                                                    *)
(***************************************************************************)
MaxSubs == 2      \* Submissions in the table
MaxDay == 1       \* date_from / date_to range over days 1..MaxDay
MaxHooks == 2     \* registered construct_form_queryset hooks

(***************************************************************************)
(* Program constants.                                                      *)
(***************************************************************************)
paginate_by == 25

FORMAT_XLSX == "xlsx"

FORMAT_CSV == "csv"

FORMATS == {FORMAT_XLSX, FORMAT_CSV}

(***************************************************************************)
(* Python values.                                                          *)
(***************************************************************************)
Str(s) == [kind |-> "str", v |-> s]

List(items) == [kind |-> "list", v |-> items]

Date(d) == [kind |-> "date", v |-> <<d>>]

DateTime(d, f) == [kind |-> "datetime", v |-> <<d, f>>]

Time(f) == [kind |-> "time", v |-> <<f>>]

None == [kind |-> "none", v |-> <<>>]

Digits == <<"0", "1", "2", "3", "4", "5", "6", "7", "8", "9">>

\* str(datetime.date): ISO text; the model's days all lie in January 2020.
DateText(d) == <<"2", "0", "2", "0", "-", "0", "1", "-", "0", Digits[d + 1]>>

\* str(datetime.time)
TimeText(f) ==
    IF f = 0 THEN <<"0", "0", ":", "0", "0", ":", "0", "0">>
             ELSE <<"1", "2", ":", "0", "0", ":", "0", "0">>

RECURSIVE Join(_, _)
\* sep.join(items) for a list of str
Join(sep, items) ==
    IF Len(items) = 0 THEN <<>>
    ELSE IF Len(items) = 1 THEN items[1]
    ELSE items[1] \o sep \o Join(sep, Tail(items))

RECURSIVE Reprs(_)
Reprs(items) ==
    IF Len(items) = 0 THEN <<>>
    ELSE <<(<<"'">> \o items[1] \o <<"'">>)>> \o Reprs(Tail(items))

\* django.utils.encoding.force_str: a str is returned as is, anything else
\* goes through str(): a list gives its repr, None gives "None".
force_str(value) ==
    CASE value.kind = "str" -> value.v
      [] value.kind = "list" -> <<"[">> \o Join(<<",", " ">>, Reprs(value.v)) \o <<"]">>
      [] value.kind = "date" -> DateText(value.v[1])
      [] value.kind = "datetime" -> DateText(value.v[1]) \o <<" ">> \o TimeText(value.v[2])
      [] value.kind = "time" -> TimeText(value.v[1])
      [] value.kind = "none" -> <<"N", "o", "n", "e">>

\* What iterating a value yields: the elements of a list, the characters of a str.
Items(value) ==
    IF value.kind = "str" THEN [i \in 1..Len(value.v) |-> <<value.v[i]>>] ELSE value.v

\* line 23
list_to_str(value) == force_str(Str(Join(<<",", " ">>, Items(value))))

RECURSIVE StripFrom(_, _, _)
StripFrom(s, i, inTag) ==
    IF i > Len(s) THEN <<>>
    ELSE IF inTag THEN StripFrom(s, i + 1, s[i] # ">")
    ELSE IF s[i] = "<" THEN StripFrom(s, i + 1, TRUE)
    ELSE <<s[i]>> \o StripFrom(s, i + 1, FALSE)

\* django.utils.html.strip_tags on text whose tags are well formed
strip_tags(s) == StripFrom(s, 1, FALSE)

\* dict.get(name): None when the key is absent
DictGet(d, name) == IF name \in DOMAIN d THEN d[name] ELSE None

\* The classes a value is an instance of (datetime is a subclass of date).
ClassesOf(value) ==
    CASE value.kind = "datetime" -> {"datetime", "date"}
      [] value.kind = "none" -> {}
      [] OTHER -> {value.kind}

IsInstance(value, classes) == ClassesOf(value) \cap classes # {}

(***************************************************************************)
(* Timestamps.                                                             *)
(***************************************************************************)
Midnight(d) == <<d, 0>>

TimeLeq(a, b) == a[1] < b[1] \/ (a[1] = b[1] /\ a[2] <= b[2])

(***************************************************************************)
(* The database and the requests the model ranges over.                    *)
(***************************************************************************)
FormIds == {1, 2}

\* The ids a request may name: those of the Forms and one that no Form has.
PkPool == FormIds \cup {3}

Field(name, label) == [name |-> name, label |-> label]

LabelW == <<"<", "b", ">", "W", "<", "/", "b", ">">>

LabelN == <<"N">>

LabelT == <<"T">>

LabelTi == <<"<", "i", ">", "T", "<", "/", "i", ">">>

SchemaPlain == <<Field("when", LabelW), Field("name", LabelN), Field("tags", LabelT)>>

\* two data fields with the same label
SchemaDup == <<Field("name", LabelN), Field("tags", LabelN), Field("when", LabelW)>>

\* two different labels with the same text once the tags are stripped
SchemaHtml == <<Field("tags", LabelTi), Field("opt", LabelT), Field("when", LabelN)>>

SchemaPool == {SchemaPlain, SchemaDup, SchemaHtml}

DataA ==
    ("when" :> Date(1)) @@ ("name" :> Str(<<"a", "b">>))
        @@ ("tags" :> List(<<(<<"x">>), (<<"y", "z">>)>>))

DataB ==
    ("when" :> DateTime(2, 1)) @@ ("name" :> Str(<<"c">>))
        @@ ("tags" :> List(<<(<<"x">>)>>)) @@ ("opt" :> Str(<<"o">>))

DataC == ("when" :> Time(1)) @@ ("name" :> None) @@ ("tags" :> List(<<>>))

DataPool == {DataA, DataB, DataC}

Days == 0..(MaxDay + 1)

Times == {<<d, f>> : d \in Days, f \in {0, 1}}

Submission(form, submit_time, data) ==
    [form |-> form, submit_time |-> submit_time, data |-> data]

\* A construct_form_queryset hook fn(qs, request): it hides some Forms, from
\* every user or from the users without list permission only.
HookPool ==
    {[hides |-> {1}, staff_sees |-> FALSE],
     [hides |-> {2}, staff_sees |-> FALSE],
     [hides |-> {2}, staff_sees |-> TRUE]}

SeqsUpTo(S, n) == UNION {[1..k -> S] : k \in 0..n}

\* submit_time is set on creation, so it never decreases with the id.
IsTable(t) == \A i \in 1..(Len(t) - 1) : TimeLeq(t[i].submit_time, t[i + 1].submit_time)

\* A date input of the filter form: absent, unparsable, or a day.
DateInputs ==
    {[state |-> "absent", day |-> 0], [state |-> "invalid", day |-> 0]}
        \cup {[state |-> "date", day |-> d] : d \in 1..MaxDay}

Absent == [state |-> "absent", day |-> 0]

Actions == {"", "CSV", "EXCEL"}

Request(can_list, pk, action, date_from, date_to) ==
    [can_list |-> can_list, pk |-> pk, action |-> action,
     date_from |-> date_from, date_to |-> date_to]

(***************************************************************************)
(* Export preprocessing, lines 95-102 and 156-180.                         *)
(***************************************************************************)
\* line 97
DefaultFieldPreprocess == <<>>

\* lines 99-102, in the dict's order
DefaultValuePreprocess ==
    <<[classes |-> {"date", "time"}, formats |-> (FORMAT_XLSX :> "None")],
      [classes |-> {"list"},
       formats |-> (FORMAT_CSV :> "list_to_str") @@ (FORMAT_XLSX :> "list_to_str")]>>

RECURSIVE ValueClassFunction(_, _, _, _)
\* lines 165-170
ValueClassFunction(cvp, i, value, export_format) ==
    IF i > Len(cvp) THEN "force_str"
    ELSE IF IsInstance(value, cvp[i].classes) /\ export_format \in DOMAIN cvp[i].formats
         THEN cvp[i].formats[export_format]
         ELSE ValueClassFunction(cvp, i + 1, value, export_format)

\* The three-argument form of get_preprocess_function with the two class
\* attributes passed in.
ResolveSwapped(cfp, cvp, field, value, export_format) ==
    LET byValue == ValueClassFunction(cvp, 1, value, export_format)
        format_dict == IF field \in DOMAIN cfp THEN cfp[field] ELSE <<>>
    IN IF byValue # "force_str" THEN byValue
       ELSE IF export_format \in DOMAIN format_dict THEN format_dict[export_format]
       ELSE "force_str"

\* lines 156-170
Resolve(cfp, cvp, field, value, export_format) ==
    LET format_dict == IF field \in DOMAIN cfp THEN cfp[field] ELSE <<>>
    IN IF export_format \in DOMAIN format_dict
       THEN format_dict[export_format]
       ELSE ValueClassFunction(cvp, 1, value, export_format)

get_preprocess_function(field, value, export_format) ==
    Resolve(custom_field_preprocess, custom_value_preprocess, field, value, export_format)

\* Calling a preprocessing function on a value.
Apply(fn, value) ==
    CASE fn = "force_str" -> Str(force_str(value))
      [] fn = "list_to_str" -> Str(list_to_str(value))
      [] OTHER -> Str(<<>>)

(***************************************************************************)
(* get_object, lines 116-124.                                              *)
(***************************************************************************)
\* One hook applied to a queryset of Forms: fn(qs, request).
HookFn(h, qs, req) == IF h.staff_sees /\ req.can_list THEN qs ELSE qs \ h.hides

\* The hooks are never called.
HooksSkipped(qs, hs, req) == qs

RECURSIVE ApplyHooks(_, _, _)
\* lines 120-121
ApplyHooks(qs, hs, req) ==
    IF Len(hs) = 0 THEN qs ELSE ApplyHooks(HookFn(hs[1], qs, req), Tail(hs), req)

(***************************************************************************)
(* get_queryset, lines 221-235.                                            *)
(***************************************************************************)
\* SelectDateForm(request.GET).is_valid(): both fields are optional date
\* fields, and the form is valid when none of them fails to parse.
is_valid(req) == req.date_from.state # "invalid" /\ req.date_to.state # "invalid"

\* cleaned_data.get(name): the parsed day, or 0 for None
Cleaned(input) == IF input.state = "date" THEN input.day ELSE 0

\* Every date that parses is applied, whether the form is valid or not.
FilterEachValid(table, form, req) ==
    LET date_from == Cleaned(req.date_from)
        date_to == Cleaned(req.date_to)
        Keep(s) ==
            /\ s.form = form
            /\ date_from # 0 => TimeLeq(Midnight(date_from), s.submit_time)
            /\ date_to # 0 => TimeLeq(s.submit_time, Midnight(date_to + 1))
    IN SelectSeq(table, Keep)

get_queryset(table, form, req) ==
    LET date_from == Cleaned(req.date_from)
        date_to == Cleaned(req.date_to)
        Keep(s) ==
            /\ s.form = form
            /\ is_valid(req) =>
                /\ date_from # 0 => TimeLeq(Midnight(date_from), s.submit_time)
                /\ date_to # 0 => TimeLeq(s.submit_time, Midnight(date_to + 1))
    IN SelectSeq(table, Keep)

(***************************************************************************)
(* The three outputs.                                                      *)
(***************************************************************************)
NoResponse ==
    [kind |-> "none", lines |-> <<>>, sheet |-> <<>>, data_headings |-> <<>>,
     data_rows |-> <<>>]

\* The headings are the labels as they are, tags included.
RawHeadings(data_fields) == [i \in 1..Len(data_fields) |-> data_fields[i].label]

\* strip_tags is left out: the labels are only coerced to text.
HeadingsUnstripped(data_fields) ==
    [i \in 1..Len(data_fields) |-> force_str(Str(data_fields[i].label))]

\* lines 140 and 196
Headings(data_fields) ==
    [i \in 1..Len(data_fields) |-> force_str(Str(strip_tags(data_fields[i].label)))]

\* lines 148-151: one CSV row
CsvRow(data_fields, form_data) ==
    [i \in 1..Len(data_fields) |-> force_str(DictGet(form_data, data_fields[i].name))]

\* lines 137-154: the rows handed to csv.writer, the header first
csv(qs, data_fields) ==
    <<Headings(data_fields)>> \o [k \in 1..Len(qs) |-> CsvRow(data_fields, qs[k].data)]

\* data_dict[key] = value on an OrderedDict: an existing key keeps its place.
DictSet(d, key, value) ==
    IF \E i \in 1..Len(d) : d[i].key = key
    THEN [i \in 1..Len(d) |-> IF d[i].key = key THEN [d[i] EXCEPT !.value = value] ELSE d[i]]
    ELSE Append(d, [key |-> key, value |-> value])

RECURSIVE DataDict(_, _, _, _)
\* lines 202-205
DataDict(d, data_fields, form_data, i) ==
    IF i > Len(data_fields) THEN d
    ELSE DataDict(
            DictSet(d, data_fields[i].label,
                    Str(force_str(DictGet(form_data, data_fields[i].name)))),
            data_fields, form_data, i + 1)

RECURSIVE write_xlsx_row(_, _, _, _)
\* lines 172-180, from the i-th item of row_dict on
write_xlsx_row(worksheet, row_dict, row_number, i) ==
    IF i > Len(row_dict) THEN worksheet
    ELSE LET field == row_dict[i].key
             value == row_dict[i].value
             preprocess_function == get_preprocess_function(field, value, FORMAT_XLSX)
             processed_value ==
                 IF preprocess_function # "None"
                 THEN Apply(preprocess_function, value) ELSE value
         IN write_xlsx_row((<<row_number, i - 1>> :> processed_value) @@ worksheet,
                           row_dict, row_number, i + 1)

RECURSIVE WriteHeadings(_, _, _)
\* lines 198-199
WriteHeadings(worksheet, data_headings, i) ==
    IF i > Len(data_headings) THEN worksheet
    ELSE WriteHeadings((<<0, i - 1>> :> Str(data_headings[i])) @@ worksheet,
                       data_headings, i + 1)

RECURSIVE WriteItems(_, _, _, _)
\* lines 201-206
WriteItems(worksheet, qs, data_fields, k) ==
    IF k > Len(qs) THEN worksheet
    ELSE WriteItems(
            write_xlsx_row(worksheet, DataDict(<<>>, data_fields, qs[k].data, 1), k, 1),
            qs, data_fields, k + 1)

\* lines 182-208: the cells of the worksheet
write_xlsx(qs, data_fields) ==
    WriteItems(WriteHeadings(<<>>, Headings(data_fields), 1), qs, data_fields, 1)

\* The page shown when the request names none: the first paginate_by items.
FirstPage(qs) == SubSeq(qs, 1, IF Len(qs) < paginate_by THEN Len(qs) ELSE paginate_by)

\* lines 240-251
data_rows(page_obj, data_fields) ==
    [k \in 1..Len(page_obj) |->
        [i \in 1..Len(data_fields) |-> DictGet(page_obj[k].data, data_fields[i].name)]]

(***************************************************************************)
(* The view, one request at a time.                                        *)
(***************************************************************************)
\* dispatch, line 111: self.object = self.get_object()
GetObject ==
    /\ pc = "dispatch"
    /\ queries' = Append(queries, "form")
    /\ IF request.pk \in ApplyHooks(DOMAIN forms, hooks, request)
       THEN /\ object' = request.pk
            /\ pc' = "permission"
            /\ outcome' = outcome
       ELSE /\ object' = object
            /\ pc' = "done"
            /\ outcome' = "notfound"
    /\ UNCHANGED <<forms, hooks, submissions, request, queryset, response,
                   custom_field_preprocess, custom_value_preprocess, call, returned>>

\* dispatch, lines 112-114
CheckPermission ==
    /\ pc = "permission"
    /\ IF request.can_list
       THEN pc' = "get" /\ outcome' = outcome
       ELSE pc' = "done" /\ outcome' = "denied"
    /\ UNCHANGED <<forms, hooks, submissions, request, object, queryset, queries,
                   response, custom_field_preprocess, custom_value_preprocess, call,
                   returned>>

\* get, lines 129-130, and csv
GetCsv ==
    /\ pc = "get"
    /\ request.action = "CSV"
    /\ LET qs == get_queryset(submissions, object, request)
       IN /\ queryset' = qs
          /\ response' = [NoResponse EXCEPT !.kind = "csv",
                                            !.lines = csv(qs, forms[object])]
    /\ queries' = Append(queries, "submissions")
    /\ outcome' = "ok"
    /\ pc' = "done"
    /\ UNCHANGED <<forms, hooks, submissions, request, object,
                   custom_field_preprocess, custom_value_preprocess, call, returned>>

\* get, lines 132-133, and write_xlsx_response
GetExcel ==
    /\ pc = "get"
    /\ request.action = "EXCEL"
    /\ LET qs == get_queryset(submissions, object, request)
       IN /\ queryset' = qs
          /\ response' = [NoResponse EXCEPT !.kind = "xlsx",
                                            !.sheet = write_xlsx(qs, forms[object])]
    /\ queries' = Append(queries, "submissions")
    /\ outcome' = "ok"
    /\ pc' = "done"
    /\ UNCHANGED <<forms, hooks, submissions, request, object,
                   custom_field_preprocess, custom_value_preprocess, call, returned>>

\* get, line 135: ListView.get, then get_context_data
GetList ==
    /\ pc = "get"
    /\ request.action \notin {"CSV", "EXCEL"}
    /\ LET qs == get_queryset(submissions, object, request)
       IN /\ queryset' = qs
          /\ response' = [NoResponse EXCEPT
                             !.kind = "html",
                             !.data_headings = RawHeadings(forms[object]),
                             !.data_rows = data_rows(FirstPage(qs), forms[object])]
    /\ queries' = Append(queries, "submissions")
    /\ outcome' = "ok"
    /\ pc' = "done"
    /\ UNCHANGED <<forms, hooks, submissions, request, object,
                   custom_field_preprocess, custom_value_preprocess, call, returned>>

Next == GetObject \/ CheckPermission \/ GetCsv \/ GetExcel \/ GetList

NoCall == [field |-> <<>>, value |-> None, export_format |-> ""]

\* The state a request arrives in, for a database and a request drawn from
\* the given sets.
InitWith(Schemas, HookSeqs, Tables, Requests) ==
    /\ forms \in {(1 :> s) @@ (2 :> SchemaPlain) : s \in Schemas}
    /\ hooks \in HookSeqs
    /\ submissions \in Tables
    /\ request \in Requests
    /\ pc = "dispatch"
    /\ object = 0
    /\ queryset = <<>>
    /\ queries = <<>>
    /\ outcome = "none"
    /\ response = NoResponse
    /\ custom_field_preprocess = DefaultFieldPreprocess
    /\ custom_value_preprocess = DefaultValuePreprocess
    /\ call = NoCall
    /\ returned = ""

TwoSubmissions ==
    <<Submission(1, <<1, 0>>, DataA), Submission(2, <<1, 1>>, DataB)>>

\* Who may see which Form: the hooks, the user and the requested id vary.
Init ==
    InitWith({SchemaPlain}, SeqsUpTo(HookPool, MaxHooks), {TwoSubmissions},
             {Request(c, pk, a, Absent, Absent) :
                 c \in BOOLEAN, pk \in PkPool, a \in Actions})

Spec == Init /\ [][Next]_vars

\* The date filter: the timestamps and the two date inputs vary.
InitFilter ==
    InitWith({SchemaPlain}, {<<>>},
             {t \in SeqsUpTo({Submission(f, tm, DataA) : f \in FormIds, tm \in Times},
                             MaxSubs) : IsTable(t)},
             {Request(TRUE, pk, a, df, dt) :
                 pk \in FormIds, a \in Actions, df \in DateInputs, dt \in DateInputs})

SpecFilter == InitFilter /\ [][Next]_vars

\* The exports: the schema of the Form and the data of its Submissions vary.
InitExport ==
    InitWith(SchemaPool, {<<>>},
             SeqsUpTo({Submission(1, <<1, 1>>, d) : d \in DataPool}, MaxSubs),
             {Request(TRUE, 1, a, Absent, Absent) : a \in Actions})

SpecExport == InitExport /\ [][Next]_vars

(***************************************************************************)
(* get_preprocess_function on its own: the two class attributes, which a   *)
(* subclass of the view may override, and the arguments vary.              *)
(***************************************************************************)
FieldPreprocessPool ==
    {DefaultFieldPreprocess,
     (LabelT :> (FORMAT_XLSX :> "None")),
     (LabelT :> ((FORMAT_CSV :> "blank") @@ (FORMAT_XLSX :> "blank"))) @@ (LabelN :> <<>>)}

ValuePreprocessPool ==
    {DefaultValuePreprocess,
     <<[classes |-> {"datetime"}, formats |-> (FORMAT_XLSX :> "blank")],
       [classes |-> {"date", "time"},
        formats |-> (FORMAT_XLSX :> "None") @@ (FORMAT_CSV :> "list_to_str")],
       [classes |-> {"list", "date"}, formats |-> (FORMAT_XLSX :> "list_to_str")]>>}

ValuePool ==
    {Str(<<"a">>), List(<<(<<"x">>), (<<"y">>)>>), Date(1), DateTime(1, 1), Time(0), None}

Call(field, value, export_format) ==
    [field |-> field, value |-> value, export_format |-> export_format]

GetPreprocess ==
    /\ pc = "preprocess"
    /\ returned' = get_preprocess_function(call.field, call.value, call.export_format)
    /\ pc' = "returned"
    /\ UNCHANGED <<forms, hooks, submissions, request, object, queryset, queries,
                   outcome, response, custom_field_preprocess,
                   custom_value_preprocess, call>>

InitPreprocess ==
    /\ forms = (1 :> SchemaPlain) @@ (2 :> SchemaPlain)
    /\ hooks = <<>>
    /\ submissions = <<>>
    /\ request = Request(TRUE, 1, "EXCEL", Absent, Absent)
    /\ pc = "preprocess"
    /\ object = 1
    /\ queryset = <<>>
    /\ queries = <<>>
    /\ outcome = "none"
    /\ response = NoResponse
    /\ custom_field_preprocess \in FieldPreprocessPool
    /\ custom_value_preprocess \in ValuePreprocessPool
    /\ call \in {Call(f, v, e) : f \in {LabelT, LabelN, LabelW}, v \in ValuePool,
                                e \in FORMATS}
    /\ returned = ""

SpecPreprocess == InitPreprocess /\ [][GetPreprocess]_vars

(***************************************************************************)
(* What the claims speak of.                                               *)
(***************************************************************************)
Done == pc = "done"

\* The Forms no hook hides from the user of the request.
VisibleForms ==
    {f \in DOMAIN forms :
        \A i \in 1..Len(hooks) :
            f \in hooks[i].hides => (hooks[i].staff_sees /\ request.can_list)}

\* The Submissions of the resolved Form, in id order.
OfObject == SelectSeq(submissions, LAMBDA s : s.form = object)

TimeLt(a, b) == TimeLeq(a, b) /\ a # b

\* The text a label is once its tags are gone, label by label.
Stripped(label) ==
    CASE label = LabelW -> <<"W">>
      [] label = LabelN -> <<"N">>
      [] label = LabelT -> <<"T">>
      [] label = LabelTi -> <<"T">>

DataFields == forms[object]

\* The value the i-th data field has in the k-th Submission of the queryset.
Stored(k, i) == DictGet(queryset[k].data, DataFields[i].name)

\* The columns written in row r of the worksheet.
Columns(r) == {rc[2] : rc \in {x \in DOMAIN response.sheet : x[1] = r}}

\* The data rows of the response, whatever its kind.
RowCount ==
    CASE response.kind = "csv" -> Len(response.lines) - 1
      [] response.kind = "xlsx" ->
            Cardinality({rc[1] : rc \in DOMAIN response.sheet} \ {0})
      [] response.kind = "html" -> Len(response.data_rows)
      [] OTHER -> 0

KindFor(action) ==
    CASE action = "CSV" -> "csv" [] action = "EXCEL" -> "xlsx" [] OTHER -> "html"

\* C1: when a user without list permission is denied, no query has run yet:
\* neither the Form lookup nor a Submission query.
C1_DeniedBeforeAnyQuery == outcome = "denied" => queries = <<>>

\* C2: a request of a user without list permission ends in an access-denied
\* error, whatever its action, and nothing is written to the response.
C2_NoPermissionIsDenied ==
    (Done /\ ~request.can_list) => (outcome = "denied" /\ response = NoResponse)

\* C3: a request whose Form id is not among the Forms left by all the hooks
\* ends in a not-found error and never in a successful response, for every
\* user and every action.
C3_UnresolvedIsNotFound ==
    request.pk \notin VisibleForms =>
        /\ outcome \in {"none", "notfound"}
        /\ response = NoResponse
        /\ Done => outcome = "notfound"

C3_Witness ==
    /\ Done
    /\ outcome = "notfound"
    /\ request.pk \in DOMAIN forms
    /\ request.pk \notin VisibleForms
    /\ request.can_list
    /\ request.action = "EXCEL"
    /\ Len(hooks) = 2
    /\ request.pk \notin hooks[1].hides

\* C4: with a valid filter the queryset is exactly the Submissions of the Form
\* with date_from <= t (when given) and t < date_to + 1 day (when given).
C4_DateRange ==
    (Done /\ outcome = "ok" /\ is_valid(request)) =>
        queryset = SelectSeq(submissions, LAMBDA s :
            /\ s.form = object
            /\ request.date_from.state = "date" =>
                   TimeLeq(Midnight(request.date_from.day), s.submit_time)
            /\ request.date_to.state = "date" =>
                   TimeLt(s.submit_time, Midnight(request.date_to.day + 1)))

\* C5: in the CSV and in the XLSX export, the cell of a field whose stored
\* value is a list of strings is the elements joined with ", ".
C5_ListsAreJoined ==
    (Done /\ outcome = "ok") =>
        \A k \in 1..Len(queryset) : \A i \in 1..Len(DataFields) :
            Stored(k, i).kind = "list" =>
                /\ response.kind = "csv" =>
                       response.lines[k + 1][i] = Join(<<",", " ">>, Stored(k, i).v)
                /\ response.kind = "xlsx" =>
                       \E c \in Columns(k) :
                           response.sheet[<<k, c>>]
                               = Str(Join(<<",", " ">>, Stored(k, i).v))

\* C6: in every output every row has one cell per data field, and the cell in
\* column i holds the value of the i-th data field.
C6_ColumnOrder ==
    (Done /\ outcome = "ok") =>
        \A k \in 1..Len(queryset) : \A i \in 1..Len(DataFields) :
            /\ response.kind = "html" =>
                   /\ Len(response.data_rows[k]) = Len(DataFields)
                   /\ response.data_rows[k][i] = Stored(k, i)
            /\ response.kind = "csv" =>
                   /\ Len(response.lines[k + 1]) = Len(DataFields)
                   /\ response.lines[k + 1][i] = force_str(Stored(k, i))
            /\ response.kind = "xlsx" =>
                   /\ Columns(k) = 0..(Len(DataFields) - 1)
                   /\ response.sheet[<<k, i - 1>>] = Str(force_str(Stored(k, i)))

\* C7: the first row of the CSV export and row 0 of the XLSX export are the
\* labels of the Form's data fields with the tags stripped, in schema order,
\* one column per data field, also when there is no Submission.
C7_HeaderRow ==
    (Done /\ outcome = "ok") =>
        /\ response.kind = "csv" =>
               response.lines[1] = [i \in 1..Len(DataFields) |-> Stripped(DataFields[i].label)]
        /\ response.kind = "xlsx" =>
               /\ Columns(0) = 0..(Len(DataFields) - 1)
               /\ \A i \in 1..Len(DataFields) :
                      response.sheet[<<0, i - 1>>] = Str(Stripped(DataFields[i].label))

C7_Witness ==
    /\ Done
    /\ outcome = "ok"
    /\ response.kind = "xlsx"
    /\ Len(queryset) = 0
    /\ DataFields = SchemaHtml
    /\ response.sheet[<<0, 0>>] = Str(<<"T">>)

\* C8: in the XLSX export a stored date or time value reaches the worksheet
\* as that same date or time value, not as text: a cell of the Submission's
\* row holds it.
C8_DatesStayNative ==
    (Done /\ outcome = "ok" /\ response.kind = "xlsx") =>
        \A k \in 1..Len(queryset) : \A i \in 1..Len(DataFields) :
            Stored(k, i).kind \in {"date", "datetime", "time"} =>
                \E c \in Columns(k) : response.sheet[<<k, c>>] = Stored(k, i)

\* The value-class groups that apply to the value and have the format.
Matching ==
    {i \in 1..Len(custom_value_preprocess) :
        /\ IsInstance(call.value, custom_value_preprocess[i].classes)
        /\ call.export_format \in DOMAIN custom_value_preprocess[i].formats}

\* C9: get_preprocess_function returns the field's entry for the format when
\* there is one (even None, even when a value-class entry matches too), else
\* the entry of the first value-class group the value is an instance of that
\* has the format, else force_str.
C9_PriorityOrder ==
    pc = "returned" =>
        IF /\ call.field \in DOMAIN custom_field_preprocess
           /\ call.export_format \in DOMAIN custom_field_preprocess[call.field]
        THEN returned = custom_field_preprocess[call.field][call.export_format]
        ELSE IF Matching = {}
        THEN returned = "force_str"
        ELSE \E i \in Matching :
                /\ \A j \in Matching : i <= j
                /\ returned = custom_value_preprocess[i].formats[call.export_format]

C9_Witness ==
    /\ pc = "returned"
    /\ returned = "None"
    /\ call.field \in DOMAIN custom_field_preprocess
    /\ call.value.kind = "list"
    /\ Matching # {}

\* C10: when the date filter input fails validation, also when only one of the
\* two dates does, no date filter is applied: the queryset is every Submission
\* of the Form and the request ends in its usual HTML, CSV or XLSX output.
C10_InvalidFilterIgnored ==
    (Done /\ "invalid" \in {request.date_from.state, request.date_to.state}) =>
        /\ outcome = "ok"
        /\ queryset = OfObject
        /\ response.kind = KindFor(request.action)
        /\ RowCount = Len(OfObject)

C10_Witness ==
    /\ Done
    /\ outcome = "ok"
    /\ request.date_from.state = "date"
    /\ request.date_to.state = "invalid"
    /\ request.action = "CSV"
    /\ Len(queryset) = 2
    /\ TimeLt(queryset[1].submit_time, Midnight(request.date_from.day))

====
